---- MODULE Spec2Model ----
(***************************************************************************)
(* A model of go_mcp_server_searxng: the SearXNG client (searxng.go) and   *)
(* the four MCP tool handlers and the start-up code (main.go).             *)
(*                                                                         *)
(* Strings are sequences of one-character strings, so that splitting,      *)
(* trimming, joining, number formatting and URL escaping are computed.     *)
(* An error value is its message: a sequence of fragments (the literal     *)
(* prefixes of fmt.Errorf stay whole, formatted arguments are characters). *)
(* Optional values are sequences of length 0 or 1.                         *)
(***************************************************************************)
EXTENDS Integers, Sequences, FiniteSets, TLC

VARIABLES
    argv,           \* the command line: the flags given at process start
    mainpc,         \* position of main(): "start", "client", "serving"
    transport,      \* main's local `transport` after flag.Parse
    serving,        \* which server loop main entered: "none", "sse", "stdio"
    searxngClient,  \* the package variable searxngClient: <<>> (nil) or <<client>>
    inv             \* the handler invocations, one record per execution context

vars == <<argv, mainpc, transport, serving, searxngClient, inv>>

-----------------------------------------------------------------------------
(* Bounds of the explored input space.                                     *)

MaxConcurrent == 2      \* concurrent invocations in SpecConc
MaxPageNo == 2          \* SearchParams.PageNo ranges over -1..MaxPageNo
MaxSafeSearch == 3      \* SearchParams.SafeSearch ranges over -1..MaxSafeSearch

-----------------------------------------------------------------------------
(* String literals of the program, as character sequences.                 *)

S_general == <<"g","e","n","e","r","a","l">>
S_google == <<"g","o","o","g","l","e">>
S_images == <<"i","m","a","g","e","s">>
S_google_images == <<"g","o","o","g","l","e"," ","i","m","a","g","e","s">>
S_news == <<"n","e","w","s">>
S_google_news == <<"g","o","o","g","l","e"," ","n","e","w","s">>
S_en == <<"e","n">>
S_json == <<"j","s","o","n">>
S_search_path == <<"/","s","e","a","r","c","h">>
S_config_path == <<"/","c","o","n","f","i","g">>

K_q == <<"q">>
K_format == <<"f","o","r","m","a","t">>
K_categories == <<"c","a","t","e","g","o","r","i","e","s">>
K_engines == <<"e","n","g","i","n","e","s">>
K_language == <<"l","a","n","g","u","a","g","e">>
K_pageno == <<"p","a","g","e","n","o">>
K_time_range == <<"t","i","m","e","_","r","a","n","g","e">>
K_safesearch == <<"s","a","f","e","s","e","a","r","c","h">>

-----------------------------------------------------------------------------
(* Library functions the program calls, computed on character sequences.   *)

\* strings.TrimSuffix(s, "/")
TrimSuffixSlash(s) ==
    IF Len(s) > 0 /\ s[Len(s)] = "/" THEN SubSeq(s, 1, Len(s) - 1) ELSE s

\* unicode.IsSpace on the characters of the model's alphabet
IsSpace(c) == c \in {" ", "\t", "\n", "\r"}

RECURSIVE TrimLeft(_)
TrimLeft(s) ==
    IF s # <<>> /\ IsSpace(Head(s)) THEN TrimLeft(Tail(s)) ELSE s

RECURSIVE TrimRight(_)
TrimRight(s) ==
    IF s # <<>> /\ IsSpace(s[Len(s)]) THEN TrimRight(SubSeq(s, 1, Len(s) - 1)) ELSE s

\* strings.TrimSpace
TrimSpace(s) == TrimRight(TrimLeft(s))

\* strings.Split(s, ","): one more element than there are commas
RECURSIVE SplitAcc(_, _)
SplitAcc(s, cur) ==
    IF s = <<>> THEN <<cur>>
    ELSE IF Head(s) = "," THEN <<cur>> \o SplitAcc(Tail(s), <<>>)
    ELSE SplitAcc(Tail(s), Append(cur, Head(s)))

SplitComma(s) == SplitAcc(s, <<>>)

\* strings.Join(list, ",")
RECURSIVE JoinComma(_)
JoinComma(list) ==
    IF list = <<>> THEN <<>>
    ELSE IF Len(list) = 1 THEN list[1]
    ELSE list[1] \o <<",">> \o JoinComma(Tail(list))

Digit(d) == CASE d = 0 -> "0" [] d = 1 -> "1" [] d = 2 -> "2" [] d = 3 -> "3"
              [] d = 4 -> "4" [] d = 5 -> "5" [] d = 6 -> "6" [] d = 7 -> "7"
              [] d = 8 -> "8" [] d = 9 -> "9"

RECURSIVE ItoaNat(_)
ItoaNat(n) == IF n < 10 THEN <<Digit(n)>> ELSE Append(ItoaNat(n \div 10), Digit(n % 10))

\* strconv.Itoa, and %d of fmt
Itoa(n) == IF n < 0 THEN <<"-">> \o ItoaNat(-n) ELSE ItoaNat(n)

\* int(f) of a float64 f: truncation toward zero.  Numbers of the tool
\* protocol are decimals with one fractional digit, held as tenths.
TruncToInt(n10) == IF n10 < 0 THEN -((-n10) \div 10) ELSE n10 \div 10

\* url.QueryEscape: letters, digits, '-', '_', '.', '~' stay; ' ' is '+';
\* every other byte is %XX.
EscapeChar(c) ==
    CASE c = " " -> <<"+">>
      [] c = "," -> <<"%","2","C">>
      [] c = "/" -> <<"%","2","F">>
      [] c = ":" -> <<"%","3","A">>
      [] c = "=" -> <<"%","3","D">>
      [] c = "&" -> <<"%","2","6">>
      [] c = "+" -> <<"%","2","B">>
      [] c = "%" -> <<"%","2","5">>
      [] c = "\t" -> <<"%","0","9">>
      [] OTHER -> <<c>>

RECURSIVE QueryEscape(_)
QueryEscape(s) == IF s = <<>> THEN <<>> ELSE EscapeChar(Head(s)) \o QueryEscape(Tail(s))

\* The keys url.Values.Encode can meet here, in its (sorted) output order.
SortedKeys == <<K_categories, K_engines, K_format, K_language, K_pageno, K_q,
                K_safesearch, K_time_range>>

\* url.Values.Encode of a map from keys to single values: key=value pairs in
\* key order, joined by '&'.
RECURSIVE EncodeFrom(_, _, _)
EncodeFrom(values, k, first) ==
    IF k > Len(SortedKeys) THEN <<>>
    ELSE IF SortedKeys[k] \in DOMAIN values
         THEN (IF first THEN <<>> ELSE <<"&">>)
              \o QueryEscape(SortedKeys[k]) \o <<"=">> \o QueryEscape(values[SortedKeys[k]])
              \o EncodeFrom(values, k + 1, FALSE)
         ELSE EncodeFrom(values, k + 1, first)

ValuesEncode(values) == EncodeFrom(values, 1, TRUE)

\* url.Values.Set on a map held as a function
ValuesSet(values, key, val) ==
    [k \in DOMAIN values \cup {key} |-> IF k = key THEN val ELSE values[k]]

\* The part of url.Parse that http.NewRequest can fail on for the URLs built
\* here: a control character anywhere, or a first path segment that starts
\* with ':' (missing protocol scheme).
URLParses(u) ==
    /\ \A k \in 1..Len(u) : u[k] \notin {"\t", "\n", "\r"}
    /\ ~ (u # <<>> /\ Head(u) = ":")

-----------------------------------------------------------------------------
(* JSON documents, as encoding/json sees them.  Text that comes from the   *)
(* backend is never taken apart by the program and is held whole.          *)

JInvalid == [j |-> "invalid"]              \* bytes that are not JSON
JNull == [j |-> "null"]
JStr(s) == [j |-> "str", s |-> s]
JNum(n10) == [j |-> "num", n10 |-> n10]    \* a number, in tenths
JList(l) == [j |-> "list", l |-> l]
JObj(o) == [j |-> "obj", o |-> o]

\* A JSON value an object holds under `key` fits a Go field of kind `want`:
\* an absent key and null leave the field at its zero value.
FieldFits(o, key, want) ==
    \/ key \notin DOMAIN o
    \/ o[key].j = "null"
    \/ /\ want = "string" /\ o[key].j = "str"
    \/ /\ want = "float" /\ o[key].j = "num"
    \/ /\ want = "int" /\ o[key].j = "num" /\ o[key].n10 % 10 = 0
    \/ /\ want = "strings" /\ o[key].j = "list"
       /\ \A k \in 1..Len(o[key].l) : o[key].l[k].j \in {"str", "null"}
    \/ /\ want = "any" /\ o[key].j = "list"
    \/ /\ want = "objects" /\ o[key].j = "list"

StrField(o, key) == IF key \in DOMAIN o /\ o[key].j = "str" THEN o[key].s ELSE ""
NumField(o, key) == IF key \in DOMAIN o /\ o[key].j = "num" THEN o[key].n10 ELSE 0
ListField(o, key) == IF key \in DOMAIN o /\ o[key].j = "list" THEN o[key].l ELSE <<>>
StrOf(v) == IF v.j = "str" THEN v.s ELSE ""

\* type SearchResult and its json tags
ResultFits(v) ==
    \/ v.j = "null"
    \/ /\ v.j = "obj"
       /\ \A key \in {"title", "url", "content", "engine", "category", "publishedDate"} :
              FieldFits(v.o, key, "string")
       /\ FieldFits(v.o, "score", "float")

DecodeResult(v) ==
    IF v.j # "obj"
    THEN [Title |-> "", URL |-> "", Content |-> "", Engine |-> "", Category |-> "",
          Score |-> 0, PublishedDate |-> ""]
    ELSE [Title |-> StrField(v.o, "title"), URL |-> StrField(v.o, "url"),
          Content |-> StrField(v.o, "content"), Engine |-> StrField(v.o, "engine"),
          Category |-> StrField(v.o, "category"), Score |-> NumField(v.o, "score"),
          PublishedDate |-> StrField(v.o, "publishedDate")]

\* json.Unmarshal(body, &searchResponse) succeeds
SearchResponseFits(doc) ==
    /\ doc.j \in {"obj", "null"}
    /\ doc.j = "obj" =>
          /\ FieldFits(doc.o, "query", "string")
          /\ FieldFits(doc.o, "number_of_results", "int")
          /\ FieldFits(doc.o, "results", "objects")
          /\ \A k \in 1..Len(ListField(doc.o, "results")) :
                 ResultFits(ListField(doc.o, "results")[k])
          /\ FieldFits(doc.o, "answers", "strings")
          /\ FieldFits(doc.o, "corrections", "strings")
          /\ FieldFits(doc.o, "infoboxes", "any")
          /\ FieldFits(doc.o, "suggestions", "strings")

\* type SearchResponse, filled by json.Unmarshal
DecodeSearchResponse(doc) ==
    LET o == IF doc.j = "obj" THEN doc.o ELSE [k \in {} |-> JNull] IN
    [Query |-> StrField(o, "query"),
     NumberOfResults |-> NumField(o, "number_of_results") \div 10,
     Results |-> [k \in 1..Len(ListField(o, "results")) |->
                      DecodeResult(ListField(o, "results")[k])],
     Answers |-> [k \in 1..Len(ListField(o, "answers")) |-> StrOf(ListField(o, "answers")[k])],
     Corrections |-> [k \in 1..Len(ListField(o, "corrections")) |->
                          StrOf(ListField(o, "corrections")[k])],
     Infoboxes |-> ListField(o, "infoboxes"),
     Suggestions |-> [k \in 1..Len(ListField(o, "suggestions")) |->
                          StrOf(ListField(o, "suggestions")[k])]]

-----------------------------------------------------------------------------
(* searxng.go: the client.                                                 *)

TimeoutSeconds == 30

\* NewSearXNGClient
NewSearXNGClient(baseURL) ==
    [BaseURL |-> TrimSuffixSlash(baseURL), Timeout |-> TimeoutSeconds]

NoValues == [k \in {} |-> <<>>]

\* Mutant of SearchValues: safesearch sent only when positive, pageno when
\* not negative.
SearchValuesZeroUnset(params) ==
    LET v0 == ValuesSet(ValuesSet(NoValues, K_q, params.Query), K_format, S_json)
        v1 == IF Len(params.Categories) > 0
              THEN ValuesSet(v0, K_categories, JoinComma(params.Categories)) ELSE v0
        v2 == IF Len(params.Engines) > 0
              THEN ValuesSet(v1, K_engines, JoinComma(params.Engines)) ELSE v1
        v3 == IF params.Language # <<>>
              THEN ValuesSet(v2, K_language, params.Language) ELSE v2
        v4 == IF params.PageNo >= 0
              THEN ValuesSet(v3, K_pageno, Itoa(params.PageNo)) ELSE v3
        v5 == IF params.TimeRange # <<>>
              THEN ValuesSet(v4, K_time_range, params.TimeRange) ELSE v4
        v6 == IF params.SafeSearch > 0 /\ params.SafeSearch <= 2
              THEN ValuesSet(v5, K_safesearch, Itoa(params.SafeSearch)) ELSE v5
    IN v6

\* Search, lines 61-87: the url.Values built from the parameters
SearchValues(params) ==
    LET v0 == ValuesSet(ValuesSet(NoValues, K_q, params.Query), K_format, S_json)
        v1 == IF Len(params.Categories) > 0
              THEN ValuesSet(v0, K_categories, JoinComma(params.Categories)) ELSE v0
        v2 == IF Len(params.Engines) > 0
              THEN ValuesSet(v1, K_engines, JoinComma(params.Engines)) ELSE v1
        v3 == IF params.Language # <<>>
              THEN ValuesSet(v2, K_language, params.Language) ELSE v2
        v4 == IF params.PageNo > 0
              THEN ValuesSet(v3, K_pageno, Itoa(params.PageNo)) ELSE v3
        v5 == IF params.TimeRange # <<>>
              THEN ValuesSet(v4, K_time_range, params.TimeRange) ELSE v4
        v6 == IF params.SafeSearch >= 0 /\ params.SafeSearch <= 2
              THEN ValuesSet(v5, K_safesearch, Itoa(params.SafeSearch)) ELSE v5
    IN v6

\* Search, lines 59 and 89: the URL of the request
SearchURL(c, params) ==
    c.BaseURL \o S_search_path \o <<"?">> \o ValuesEncode(SearchValues(params))

\* GetEngines, line 122
EnginesURL(c) == c.BaseURL \o S_config_path

\* http.NewRequest("GET", url, nil) and the two headers set on it: the
\* request, or nothing when the URL does not parse.
NewRequest(url) ==
    IF URLParses(url)
    THEN << [method |-> "GET", url |-> url,
             UserAgent |-> "MCP-SearXNG-Client/1.0", Accept |-> "application/json"] >>
    ELSE <<>>

ErrCreatingRequest == <<"error creating request: ", "parse error">>

\* Mutant of SearchOutcome: the status error without the body, as GetEngines
\* formats it.
SearchOutcomeNoBody(reply) ==
    IF reply.kind = "neterr"
    THEN [res |-> <<>>, err |-> <<"error executing request: ", reply.cause>>]
    ELSE IF reply.status # 200
    THEN [res |-> <<>>, err |-> <<"HTTP error ">> \o Itoa(reply.status)]
    ELSE IF reply.readerr
    THEN [res |-> <<>>, err |-> <<"error reading response: ", "read error">>]
    ELSE IF ~ SearchResponseFits(reply.doc)
    THEN [res |-> <<>>, err |-> <<"error parsing JSON: ", "unmarshal error">>]
    ELSE [res |-> <<DecodeSearchResponse(reply.doc)>>, err |-> <<>>]

\* Search after c.HTTPClient.Do returned `reply`: what Search returns, as
\* [res |-> <<>> or <<response>>, err |-> <<>> or the message].
\* reply.kind = "neterr": Do failed; "http": a response with its status, the
\* bytes io.ReadAll returned (raw), whether it also returned an error
\* (readerr), and the JSON the bytes hold (doc).
SearchOutcome(reply) ==
    IF reply.kind = "neterr"
    THEN [res |-> <<>>, err |-> <<"error executing request: ", reply.cause>>]
    ELSE IF reply.status # 200
    THEN [res |-> <<>>,
          err |-> <<"HTTP error ">> \o Itoa(reply.status) \o <<": ">>
                  \o <<reply.raw>>]
    ELSE IF reply.readerr
    THEN [res |-> <<>>, err |-> <<"error reading response: ", "read error">>]
    ELSE IF ~ SearchResponseFits(reply.doc)
    THEN [res |-> <<>>, err |-> <<"error parsing JSON: ", "unmarshal error">>]
    ELSE [res |-> <<DecodeSearchResponse(reply.doc)>>, err |-> <<>>]

\* GetEngines after c.HTTPClient.Do returned `reply`
EnginesOutcome(reply) ==
    IF reply.kind = "neterr"
    THEN [res |-> <<>>, err |-> <<"error executing request: ", reply.cause>>]
    ELSE IF reply.status # 200
    THEN [res |-> <<>>, err |-> <<"HTTP error ">> \o Itoa(reply.status)]
    ELSE IF reply.readerr
    THEN [res |-> <<>>, err |-> <<"error reading response: ", "read error">>]
    ELSE IF reply.doc.j \notin {"obj", "null"}
    THEN [res |-> <<>>, err |-> <<"error parsing JSON: ", "unmarshal error">>]
    ELSE [res |-> <<reply.doc>>, err |-> <<>>]

\* Mutant of ClientAfterCall: a failed call clears the receiver's base URL.
ClientAfterCallReset(c, reply) ==
    IF reply.kind = "neterr" \/ reply.status # 200 THEN [c EXCEPT !.BaseURL = <<>>] ELSE c

\* Search and GetEngines have a pointer receiver and only read it.
ClientAfterCall(c, reply) == c

-----------------------------------------------------------------------------
(* main.go: the tool handlers.                                             *)
(* A tool argument is absent, a string, a number (in tenths) or a boolean. *)

Absent == [t |-> "absent"]
Str(s) == [t |-> "str", s |-> s]
Num(n10) == [t |-> "num", n10 |-> n10]
Bool(b) == [t |-> "bool", b |-> b]

SearchTools == {"searxng_search", "searxng_image_search", "searxng_news_search"}
Tools == SearchTools \cup {"searxng_engines_info"}

\* request.Params.Arguments[key].(string) succeeded
IsString(arg) == arg.t = "str"

\* request.Params.Arguments[key].(float64) succeeded
IsNumber(arg) == arg.t = "num"

\* The categories / engines coercion of the handlers: strings.Split, then
\* strings.TrimSpace on each element; the default when the argument is not
\* a string or is "".
CoerceList(arg, default) ==
    IF IsString(arg) /\ arg.s # <<>>
    THEN LET parts == SplitComma(arg.s)
         IN [k \in 1..Len(parts) |-> TrimSpace(parts[k])]
    ELSE default

\* `language`: the argument when it is a non-empty string
CoerceLanguage(arg, default) == IF IsString(arg) /\ arg.s # <<>> THEN arg.s ELSE default

\* `page` and `safe_search`: int(float64), left at the zero value otherwise
CoerceInt(arg) == IF IsNumber(arg) THEN TruncToInt(arg.n10) ELSE 0

\* `time_range`: the argument when it is a string
CoerceTimeRange(arg) == IF IsString(arg) THEN arg.s ELSE <<>>

\* searxngSearchHandler, lines 127-162
SearchHandlerParams(args) ==
    [Query |-> args.query.s,
     Categories |-> CoerceList(args.categories, <<S_general>>),
     Engines |-> CoerceList(args.engines, <<S_google>>),
     Language |-> CoerceLanguage(args.language, S_en),
     PageNo |-> CoerceInt(args.page),
     TimeRange |-> CoerceTimeRange(args.time_range),
     SafeSearch |-> CoerceInt(args.safe_search)]

\* searxngImageSearchHandler, lines 213-229
ImageHandlerParams(args) ==
    [Query |-> args.query.s,
     Categories |-> <<S_images>>,
     Engines |-> CoerceList(args.engines, <<S_google_images>>),
     Language |-> S_en,
     PageNo |-> CoerceInt(args.page),
     TimeRange |-> <<>>,
     SafeSearch |-> 0]

\* searxngNewsSearchHandler, lines 250-267
NewsHandlerParams(args) ==
    [Query |-> args.query.s,
     Categories |-> <<S_news>>,
     Engines |-> <<S_google_news>>,
     Language |-> CoerceLanguage(args.language, S_en),
     PageNo |-> CoerceInt(args.page),
     TimeRange |-> CoerceTimeRange(args.time_range),
     SafeSearch |-> 0]

HandlerParams(tool, args) ==
    CASE tool = "searxng_search" -> SearchHandlerParams(args)
      [] tool = "searxng_image_search" -> ImageHandlerParams(args)
      [] tool = "searxng_news_search" -> NewsHandlerParams(args)

\* The prefix each handler wraps a client error in
ErrPrefix(tool) ==
    CASE tool = "searxng_search" -> "search error: "
      [] tool = "searxng_image_search" -> "image search error: "
      [] tool = "searxng_news_search" -> "news search error: "
      [] tool = "searxng_engines_info" -> "error getting engines information: "

\* json.MarshalIndent writes the keys of a map in sorted order; these are
\* the keys the model's documents use, sorted.
MapKeyOrder == <<"answers", "categories", "corrections", "engines", "infoboxes",
                 "number_of_results", "query", "results", "suggestions">>

RECURSIVE MembersFrom(_, _)
MembersFrom(m, k) ==
    IF k > Len(MapKeyOrder) THEN <<>>
    ELSE IF MapKeyOrder[k] \in DOMAIN m
         THEN << [k |-> MapKeyOrder[k], v |-> m[MapKeyOrder[k]]] >> \o MembersFrom(m, k + 1)
         ELSE MembersFrom(m, k + 1)

\* json.MarshalIndent of a map: the text, as its members in output order
MarshalMap(m) == MembersFrom(m, 1)

JStrings(l) == JList([k \in 1..Len(l) |-> JStr(l[k])])

\* json.MarshalIndent of a SearchResult: the struct's fields in order,
\* score and publishedDate left out when zero (omitempty)
MarshalResult(r) ==
    << [k |-> "title", v |-> JStr(r.Title)], [k |-> "url", v |-> JStr(r.URL)],
       [k |-> "content", v |-> JStr(r.Content)], [k |-> "engine", v |-> JStr(r.Engine)],
       [k |-> "category", v |-> JStr(r.Category)] >>
    \o (IF r.Score # 0 THEN << [k |-> "score", v |-> JNum(r.Score)] >> ELSE <<>>)
    \o (IF r.PublishedDate # ""
        THEN << [k |-> "publishedDate", v |-> JStr(r.PublishedDate)] >> ELSE <<>>)

MarshalResults(rs) == JList([k \in 1..Len(rs) |-> MarshalResult(rs[k])])

\* json.MarshalIndent of a *SearchResponse: the struct's fields in order,
\* the omitempty ones left out when empty
MarshalSearchResponse(res) ==
    << [k |-> "query", v |-> JStr(res.Query)],
       [k |-> "number_of_results", v |-> JNum(res.NumberOfResults * 10)],
       [k |-> "results", v |-> MarshalResults(res.Results)] >>
    \o (IF Len(res.Answers) > 0
        THEN << [k |-> "answers", v |-> JStrings(res.Answers)] >> ELSE <<>>)
    \o (IF Len(res.Corrections) > 0
        THEN << [k |-> "corrections", v |-> JStrings(res.Corrections)] >> ELSE <<>>)
    \o (IF Len(res.Infoboxes) > 0
        THEN << [k |-> "infoboxes", v |-> JList(res.Infoboxes)] >> ELSE <<>>)
    \o (IF Len(res.Suggestions) > 0
        THEN << [k |-> "suggestions", v |-> JStrings(res.Suggestions)] >> ELSE <<>>)

\* Mutant of GeneralResponse: the optional keys always set, infoboxes too.
GeneralResponseAllKeys(res) ==
    [k \in {"query", "number_of_results", "results", "answers", "suggestions",
            "corrections", "infoboxes"} |->
        CASE k = "query" -> JStr(res.Query)
          [] k = "number_of_results" -> JNum(res.NumberOfResults * 10)
          [] k = "results" -> MarshalResults(res.Results)
          [] k = "answers" -> JStrings(res.Answers)
          [] k = "suggestions" -> JStrings(res.Suggestions)
          [] k = "corrections" -> JStrings(res.Corrections)
          [] k = "infoboxes" -> JList(res.Infoboxes)]

\* searxngSearchHandler, lines 169-183: the response map
GeneralResponse(res) ==
    LET base == [k \in {"query", "number_of_results", "results"} |->
                    CASE k = "query" -> JStr(res.Query)
                      [] k = "number_of_results" -> JNum(res.NumberOfResults * 10)
                      [] k = "results" -> MarshalResults(res.Results)]
        opt == {k \in {"answers", "suggestions", "corrections"} :
                    \/ k = "answers" /\ Len(res.Answers) > 0
                    \/ k = "suggestions" /\ Len(res.Suggestions) > 0
                    \/ k = "corrections" /\ Len(res.Corrections) > 0}
    IN [k \in DOMAIN base \cup opt |->
            CASE k = "answers" -> JStrings(res.Answers)
              [] k = "suggestions" -> JStrings(res.Suggestions)
              [] k = "corrections" -> JStrings(res.Corrections)
              [] OTHER -> base[k]]

\* What a handler makes of a successful client call: the text of the result
Payload(tool, res) ==
    CASE tool = "searxng_search" -> MarshalMap(GeneralResponse(res))
      [] tool \in {"searxng_image_search", "searxng_news_search"} -> MarshalSearchResponse(res)
      [] tool = "searxng_engines_info" -> MarshalMap(IF res.j = "obj" THEN res.o ELSE [k \in {} |-> JNull])

-----------------------------------------------------------------------------
(* One handler invocation.  A handler blocks once, in HTTPClient.Do; the   *)
(* invocation is "inflight" there and "done" when the handler returned.    *)
(* reqs is the sequence of requests handed to HTTPClient.Do.               *)

NoArgs ==
    [query |-> Absent, categories |-> Absent, engines |-> Absent, language |-> Absent,
     page |-> Absent, time_range |-> Absent, safe_search |-> Absent]

Idle ==
    [pc |-> "idle", tool |-> "none", args |-> NoArgs, params |-> <<>>, reqs |-> <<>>,
     reply |-> <<>>, result |-> <<>>, err |-> <<>>]

Returned(tool, args, params, result, err) ==
    [pc |-> "done", tool |-> tool, args |-> args, params |-> params, reqs |-> <<>>,
     reply |-> <<>>, result |-> result, err |-> err]

\* Search / GetEngines up to the call of HTTPClient.Do: the invocation with
\* the request in flight, or returned with the request-creation error
\* (wrapped by the caller's prefix, if any).
ClientCall(tool, args, params, c, prefix) ==
    LET url == IF params # <<>> THEN SearchURL(c, params[1]) ELSE EnginesURL(c)
        req == NewRequest(url)
    IN IF req = <<>>
       THEN Returned(tool, args, params, <<>>, prefix \o ErrCreatingRequest)
       ELSE [pc |-> "inflight", tool |-> tool, args |-> args, params |-> params,
             reqs |-> req, reply |-> <<>>, result |-> <<>>, err |-> <<>>]

\* Mutant of HandlerCall: the query is checked after the client was called
\* (with the zero value "" for a query that is no string).
HandlerCallLateCheck(tool, args, client) ==
    IF client = <<>>
    THEN Returned(tool, args, <<>>, <<>>, <<"panic: nil pointer dereference">>)
    ELSE ClientCall(tool, args,
                    IF tool \in SearchTools
                    THEN <<HandlerParams(tool, IF IsString(args.query) THEN args
                                               ELSE [args EXCEPT !.query = Str(<<>>)])>>
                    ELSE <<>>,
                    client[1], <<ErrPrefix(tool)>>)

\* A handler from its entry to the point where it blocks or returns.
\* client is the value of the package variable searxngClient.
HandlerCall(tool, args, client) ==
    IF tool \in SearchTools /\ ~ IsString(args.query)
    THEN Returned(tool, args, <<>>, <<>>, <<"query must be a string">>)
    ELSE IF client = <<>>
    THEN Returned(tool, args, <<>>, <<>>, <<"panic: nil pointer dereference">>)
    ELSE ClientCall(tool, args,
                    IF tool \in SearchTools THEN <<HandlerParams(tool, args)>> ELSE <<>>,
                    client[1], <<ErrPrefix(tool)>>)

\* Mutant of HandlerReply: a failed call is tried once more.
HandlerReplyRetry(rec, reply) ==
    LET out == IF rec.tool \in SearchTools THEN SearchOutcome(reply) ELSE EnginesOutcome(reply)
    IN IF out.err # <<>> /\ Len(rec.reqs) < 2
       THEN [rec EXCEPT !.reqs = rec.reqs \o <<rec.reqs[1]>>]
       ELSE IF out.err # <<>>
       THEN [rec EXCEPT !.pc = "done", !.reply = <<reply>>,
                        !.err = <<ErrPrefix(rec.tool)>> \o out.err]
       ELSE [rec EXCEPT !.pc = "done", !.reply = <<reply>>,
                        !.result = <<Payload(rec.tool, out.res[1])>>]

\* A handler from the return of HTTPClient.Do to its own return.
HandlerReply(rec, reply) ==
    LET out == IF rec.tool \in SearchTools THEN SearchOutcome(reply) ELSE EnginesOutcome(reply)
    IN IF out.err # <<>>
       THEN [rec EXCEPT !.pc = "done", !.reply = <<reply>>,
                        !.err = <<ErrPrefix(rec.tool)>> \o out.err]
       ELSE [rec EXCEPT !.pc = "done", !.reply = <<reply>>,
                        !.result = <<Payload(rec.tool, out.res[1])>>]

\* Search or GetEngines called directly, from the return of HTTPClient.Do
ClientReply(rec, reply) ==
    LET out == IF rec.tool = "Search" THEN SearchOutcome(reply) ELSE EnginesOutcome(reply)
    IN [rec EXCEPT !.pc = "done", !.reply = <<reply>>, !.result = out.res, !.err = out.err]

-----------------------------------------------------------------------------
(* main.go: start-up.                                                      *)

DefaultTransport == "sse"
DefaultSearxngURL ==
    <<"h","t","t","p",":","/","/","1","2","7",".","0",".","0",".","1",":","8","0","8","0">>

\* flag.StringVar(&transport, "t", "sse", ...) after flag.Parse
FlagTransport(av) == IF av.t = <<>> THEN DefaultTransport ELSE av.t[1]

\* flag.StringVar(&searxngURL, "searxng", "http://127.0.0.1:8080", ...)
FlagSearxngURL(av) == IF av.searxng = <<>> THEN DefaultSearxngURL ELSE av.searxng[1]

\* main, lines 106-118: the server loop entered
SelectServer(t) == IF t = "sse" THEN "sse" ELSE "stdio"

\* Tool calls are delivered once main is in a server loop.
CanDeliver == serving # "none"

\* main, lines 24-30
MainNewClient ==
    /\ mainpc = "start"
    /\ mainpc' = "client"
    /\ transport' = FlagTransport(argv)
    /\ searxngClient' = <<NewSearXNGClient(FlagSearxngURL(argv))>>
    /\ UNCHANGED <<argv, serving, inv>>

\* main, lines 32-118: the tools are registered and the server loop starts
MainServe ==
    /\ mainpc = "client"
    /\ mainpc' = "serving"
    /\ serving' = SelectServer(transport)
    /\ UNCHANGED <<argv, transport, searxngClient, inv>>

-----------------------------------------------------------------------------
(* The inputs explored.                                                    *)

S_cats == <<"c","a","t","s">>
S_de == <<"d","e">>
S_day == <<"d","a","y">>
S_bing == <<"b","i","n","g">>
S_host == <<"h","t","t","p",":","/","/","s","x","/">>
S_badurl == <<":","s","x">>

TransportFlags == {<<>>, <<"sse">>, <<"stdio">>, <<"cli">>}
URLFlags == {<<>>, <<S_host>>, <<S_badurl>>}

QueryArgs == {Absent, Num(420), Str(S_cats)}
ListArgs ==
    {Absent, Str(<<>>), Str(<<",">>), Str(<<" ">> \o S_general \o <<" ",","," ">> \o S_news \o <<" ">>)}
EngineArgs == {Absent, Bool(TRUE), Str(S_bing \o <<","," ">>)}
LanguageArgs == {Absent, Str(<<>>), Str(S_de)}
PageArgs == {Absent, Num(25), Num(-15)}
TimeRangeArgs == {Absent, Str(S_day)}
SafeSearchArgs == {Absent, Num(10), Num(30)}

ArgSpace ==
    [query : QueryArgs, categories : ListArgs, engines : EngineArgs,
     language : LanguageArgs, page : PageArgs, time_range : TimeRangeArgs,
     safe_search : SafeSearchArgs]

ConcArgSpace ==
    {NoArgs, [NoArgs EXCEPT !.query = Str(S_cats)],
     [NoArgs EXCEPT !.query = Str(S_cats), !.page = Num(25)]}

ParamSpace ==
    [Query : {<<>>, S_cats},
     Categories : {<<>>, <<S_general>>, <<S_general, S_news>>},
     Engines : {<<>>, <<S_google, S_bing>>},
     Language : {<<>>, S_en},
     PageNo : -1..MaxPageNo,
     TimeRange : {<<>>, S_day},
     SafeSearch : -1..MaxSafeSearch]

Item(title) ==
    JObj([title |-> JStr(title), url |-> JStr("U"), content |-> JStr("C"),
          engine |-> JStr("google"), category |-> JStr("general")])

DocOne ==
    JObj([query |-> JStr("cats"), number_of_results |-> JNum(10),
          results |-> JList(<<Item("T")>>)])
DocFull ==
    JObj([query |-> JStr("cats"), number_of_results |-> JNum(20),
          results |-> JList(<<Item("T2"), Item("T1")>>),
          answers |-> JList(<<JStr("a1"), JStr("a2")>>),
          corrections |-> JList(<<JStr("c1")>>),
          infoboxes |-> JList(<<JObj([infobox |-> JStr("i1")])>>),
          suggestions |-> JList(<<JStr("s1")>>)])
DocSome ==
    JObj([query |-> JStr("cats"), number_of_results |-> JNum(0),
          results |-> JList(<<>>), answers |-> JList(<<>>),
          infoboxes |-> JList(<<JObj([infobox |-> JStr("i1")])>>),
          suggestions |-> JList(<<JStr("s1")>>)])
DocBadShape ==
    JObj([query |-> JStr("cats"), results |-> JStr("none")])
DocConfig ==
    JObj([engines |-> JObj([google |-> JObj([k \in {} |-> JNull])]),
          categories |-> JList(<<JStr("general")>>)])

Http(status, raw, doc) ==
    [kind |-> "http", status |-> status, raw |-> raw, doc |-> doc, readerr |-> FALSE]

ReplySpace ==
    { [kind |-> "neterr", cause |-> "connection refused"],
      Http(500, "upstream error", JInvalid),
      [Http(502, "bad gate", JInvalid) EXCEPT !.readerr = TRUE],
      Http(404, "{}", JObj([k \in {} |-> JNull])),
      Http(200, "<html>", JInvalid),
      [Http(200, "{...", DocOne) EXCEPT !.readerr = TRUE],
      Http(200, "{one}", DocOne),
      Http(200, "{full}", DocFull),
      Http(200, "{some}", DocSome),
      Http(200, "{badshape}", DocBadShape),
      Http(200, "{config}", DocConfig) }

ConcReplySpace ==
    { [kind |-> "neterr", cause |-> "connection refused"],
      Http(500, "upstream error", JInvalid),
      Http(200, "{one}", DocOne) }

-----------------------------------------------------------------------------
(* Actions.                                                                *)

\* The transport delivers a tool call: the handler runs until it blocks in
\* HTTPClient.Do or returns.
Call(i, tools, space) ==
    /\ CanDeliver
    /\ inv[i].pc = "idle"
    /\ \E tool \in tools, args \in space :
           inv' = [inv EXCEPT ![i] = HandlerCall(tool, args, searxngClient)]
    /\ UNCHANGED <<argv, mainpc, transport, serving, searxngClient>>

\* HTTPClient.Do returns and the handler runs to its return.
Reply(i, replies) ==
    /\ inv[i].pc = "inflight"
    /\ inv[i].tool \in Tools
    /\ \E reply \in replies :
           /\ inv' = [inv EXCEPT ![i] = HandlerReply(inv[i], reply)]
           /\ searxngClient' = <<ClientAfterCall(searxngClient[1], reply)>>
    /\ UNCHANGED <<argv, mainpc, transport, serving>>

\* The transport has taken the handler's return value; the execution
\* context is free for the next call.
Return(i) ==
    /\ inv[i].pc = "done"
    /\ inv' = [inv EXCEPT ![i] = Idle]
    /\ UNCHANGED <<argv, mainpc, transport, serving, searxngClient>>

\* Search called with arbitrary parameters
DirectSearch(i) ==
    /\ searxngClient # <<>>
    /\ inv[i].pc = "idle"
    /\ \E p \in ParamSpace :
           inv' = [inv EXCEPT ![i] = ClientCall("Search", NoArgs, <<p>>, searxngClient[1], <<>>)]
    /\ UNCHANGED <<argv, mainpc, transport, serving, searxngClient>>

\* GetEngines called
DirectGetEngines(i) ==
    /\ searxngClient # <<>>
    /\ inv[i].pc = "idle"
    /\ inv' = [inv EXCEPT ![i] = ClientCall("GetEngines", NoArgs, <<>>, searxngClient[1], <<>>)]
    /\ UNCHANGED <<argv, mainpc, transport, serving, searxngClient>>

\* HTTPClient.Do returns to Search or GetEngines
DirectReply(i) ==
    /\ inv[i].pc = "inflight"
    /\ inv[i].tool \in {"Search", "GetEngines"}
    /\ \E reply \in ReplySpace :
           /\ inv' = [inv EXCEPT ![i] = ClientReply(inv[i], reply)]
           /\ searxngClient' = <<ClientAfterCall(searxngClient[1], reply)>>
    /\ UNCHANGED <<argv, mainpc, transport, serving>>

InitWith(flags, urls, slots) ==
    /\ argv \in [t : flags, searxng : urls]
    /\ mainpc = "start"
    /\ transport = ""
    /\ serving = "none"
    /\ searxngClient = <<>>
    /\ inv = [i \in slots |-> Idle]

\* The server with one execution context: tool calls one after another.
Init == InitWith(TransportFlags, URLFlags, {1})

Next ==
    \/ MainNewClient
    \/ MainServe
    \/ \E i \in DOMAIN inv : Call(i, Tools, ArgSpace)
    \/ \E i \in DOMAIN inv : Reply(i, ReplySpace)
    \/ \E i \in DOMAIN inv : Return(i)

Spec == Init /\ [][Next]_vars

\* The server with several execution contexts: concurrent tool calls.
InitConc == InitWith({<<>>, <<"stdio">>}, {<<>>, <<S_badurl>>}, 1..MaxConcurrent)

NextConc ==
    \/ MainNewClient
    \/ MainServe
    \/ \E i \in DOMAIN inv : Call(i, Tools, ConcArgSpace)
    \/ \E i \in DOMAIN inv : Reply(i, ConcReplySpace)
    \/ \E i \in DOMAIN inv : Return(i)

SpecConc == InitConc /\ [][NextConc]_vars

\* The client alone, called with arbitrary parameters.
InitSearch == InitWith({<<>>}, URLFlags, {1})

NextSearch ==
    \/ MainNewClient
    \/ \E i \in DOMAIN inv : DirectSearch(i)
    \/ \E i \in DOMAIN inv : DirectGetEngines(i)
    \/ \E i \in DOMAIN inv : DirectReply(i)
    \/ \E i \in DOMAIN inv : Return(i)

SpecSearch == InitSearch /\ [][NextSearch]_vars

TypeOK ==
    /\ mainpc \in {"start", "client", "serving"}
    /\ serving \in {"none", "sse", "stdio"}
    /\ \A i \in DOMAIN inv : inv[i].pc \in {"idle", "inflight", "done"}

-----------------------------------------------------------------------------
(* What the properties below read off a request or an error: the backend's *)
(* view of a URL (the query string split and unescaped), and whether a     *)
(* message contains a text.                                                *)

RECURSIVE SplitOn(_, _, _)
SplitOn(s, c, cur) ==
    IF s = <<>> THEN <<cur>>
    ELSE IF Head(s) = c THEN <<cur>> \o SplitOn(Tail(s), c, <<>>)
    ELSE SplitOn(Tail(s), c, Append(cur, Head(s)))

RECURSIVE BeforeFirst(_, _)
BeforeFirst(s, c) ==
    IF s = <<>> \/ Head(s) = c THEN <<>> ELSE <<Head(s)>> \o BeforeFirst(Tail(s), c)

RECURSIVE AfterFirst(_, _)
AfterFirst(s, c) ==
    IF s = <<>> THEN <<>> ELSE IF Head(s) = c THEN Tail(s) ELSE AfterFirst(Tail(s), c)

HexByte(a, b) ==
    CASE <<a, b>> = <<"2", "C">> -> ","
      [] <<a, b>> = <<"2", "F">> -> "/"
      [] <<a, b>> = <<"3", "A">> -> ":"
      [] <<a, b>> = <<"3", "D">> -> "="
      [] <<a, b>> = <<"2", "6">> -> "&"
      [] <<a, b>> = <<"2", "B">> -> "+"
      [] <<a, b>> = <<"2", "5">> -> "%"
      [] <<a, b>> = <<"0", "9">> -> "\t"
      [] OTHER -> "?"

RECURSIVE QueryUnescape(_)
QueryUnescape(s) ==
    IF s = <<>> THEN <<>>
    ELSE IF Head(s) = "+" THEN <<" ">> \o QueryUnescape(Tail(s))
    ELSE IF Head(s) = "%" /\ Len(s) >= 3
         THEN <<HexByte(s[2], s[3])>> \o QueryUnescape(SubSeq(s, 4, Len(s)))
    ELSE <<Head(s)>> \o QueryUnescape(Tail(s))

\* The query parameters a server reads from the URL, as <<key, value>> pairs
QueryPairs(url) ==
    LET parts == SplitOn(AfterFirst(url, "?"), "&", <<>>)
    IN { <<QueryUnescape(BeforeFirst(parts[k], "=")), QueryUnescape(AfterFirst(parts[k], "="))>> :
             k \in 1..Len(parts) }

QueryKeys(url) == { pr[1] : pr \in QueryPairs(url) }

Contains(msg, text) ==
    \E k \in 0..(Len(msg) - Len(text)) : SubSeq(msg, k + 1, k + Len(text)) = text

\* The keys of a payload, and the value under a key
PayloadKeys(payload) == { payload[k].k : k \in 1..Len(payload) }
PayloadValue(payload, key) == (CHOOSE k \in 1..Len(payload) : payload[k].k = key)

DocList(doc, key) ==
    IF doc.j = "obj" /\ key \in DOMAIN doc.o /\ doc.o[key].j = "list" THEN doc.o[key].l ELSE <<>>

-----------------------------------------------------------------------------
(* C1: every request Search issues is a GET of <BaseURL>/search whose      *)
(* query string holds q (= params.Query, also when empty) and format=json, *)
(* and holds categories iff the list is non-empty (the elements joined by  *)
(* ','), engines likewise, language iff non-empty, pageno iff PageNo > 0,  *)
(* time_range iff non-empty, safesearch iff 0 <= SafeSearch <= 2; nothing  *)
(* else.                                                                   *)
C1_QueryString ==
    \A i \in DOMAIN inv :
        (inv[i].tool = "Search" /\ inv[i].reqs # <<>>) =>
            LET p == inv[i].params[1]
                req == inv[i].reqs[1]
                Q == QueryPairs(req.url)
                Keys == QueryKeys(req.url)
            IN /\ req.method = "GET"
               /\ BeforeFirst(req.url, "?") = searxngClient[1].BaseURL \o S_search_path
               /\ Cardinality(Q) = Cardinality(Keys)
               /\ Keys \subseteq {K_q, K_format, K_categories, K_engines, K_language,
                                  K_pageno, K_time_range, K_safesearch}
               /\ <<K_q, p.Query>> \in Q
               /\ <<K_format, S_json>> \in Q
               /\ (K_categories \in Keys) <=> (Len(p.Categories) > 0)
               /\ \A pr \in Q : pr[1] = K_categories => SplitOn(pr[2], ",", <<>>) = p.Categories
               /\ (K_engines \in Keys) <=> (Len(p.Engines) > 0)
               /\ \A pr \in Q : pr[1] = K_engines => SplitOn(pr[2], ",", <<>>) = p.Engines
               /\ (K_language \in Keys) <=> (p.Language # <<>>)
               /\ \A pr \in Q : pr[1] = K_language => pr[2] = p.Language
               /\ (K_pageno \in Keys) <=> (p.PageNo > 0)
               /\ \A pr \in Q : pr[1] = K_pageno => pr[2] = Itoa(p.PageNo)
               /\ (K_time_range \in Keys) <=> (p.TimeRange # <<>>)
               /\ \A pr \in Q : pr[1] = K_time_range => pr[2] = p.TimeRange
               /\ (K_safesearch \in Keys) <=> (p.SafeSearch \in 0..2)
               /\ \A pr \in Q : pr[1] = K_safesearch => pr[2] = Itoa(p.SafeSearch)

\* Search was called with an empty query, no categories, PageNo = 0 and
\* SafeSearch = 0, and its request carries q= and safesearch=0.
C1_Witness ==
    \E i \in DOMAIN inv :
        /\ inv[i].tool = "Search" /\ inv[i].reqs # <<>>
        /\ inv[i].params[1].Query = <<>> /\ inv[i].params[1].Categories = <<>>
        /\ inv[i].params[1].PageNo = 0 /\ inv[i].params[1].SafeSearch = 0
        /\ inv[i].params[1].Engines # <<>>
        /\ <<K_safesearch, <<"0">>>> \in QueryPairs(inv[i].reqs[1].url)
        /\ <<K_q, <<>>>> \in QueryPairs(inv[i].reqs[1].url)

(* C2: searxng_search called with only query="cats" issues a request whose *)
(* query parameters are exactly q=cats, format=json, categories=general,   *)
(* engines=google and language=en.                                         *)
C2_OnlyQueryCats ==
    \A i \in DOMAIN inv :
        (/\ inv[i].tool = "searxng_search"
         /\ inv[i].args = [NoArgs EXCEPT !.query = Str(S_cats)]
         /\ inv[i].reqs # <<>>) =>
            QueryPairs(inv[i].reqs[1].url) =
                { <<K_q, S_cats>>, <<K_format, S_json>>, <<K_categories, S_general>>,
                  <<K_engines, S_google>>, <<K_language, S_en>> }

(* C3: a search handler called with query absent or not a string ends with *)
(* an error and no payload, and issues no request.                         *)
C3_InputError ==
    \A i \in DOMAIN inv :
        (inv[i].tool \in SearchTools /\ inv[i].args.query.t # "str") =>
            /\ inv[i].pc = "done"
            /\ inv[i].err # <<>>
            /\ inv[i].result = <<>>
            /\ inv[i].reqs = <<>>
            /\ inv[i].reply = <<>>

\* A search handler was called with a number as its query and has returned.
C3_Witness ==
    \E i \in DOMAIN inv :
        /\ inv[i].tool = "searxng_image_search"
        /\ inv[i].args.query = Num(420)
        /\ inv[i].pc = "done"

(* C4: when the backend answers /search with a status other than 200,      *)
(* Search returns an error with the status code and the body text, and the *)
(* search handler fails with an error that still holds both, and has no    *)
(* payload.                                                                *)
C4_StatusError ==
    \A i \in DOMAIN inv :
        (/\ inv[i].tool \in SearchTools /\ inv[i].pc = "done" /\ inv[i].reply # <<>>
         /\ inv[i].reply[1].kind = "http" /\ inv[i].reply[1].status # 200) =>
            LET reply == inv[i].reply[1]
                out == SearchOutcome(reply)
            IN /\ out.res = <<>>
               /\ Contains(out.err, Itoa(reply.status))
               /\ Contains(out.err, <<reply.raw>>)
               /\ Contains(inv[i].err, Itoa(reply.status))
               /\ Contains(inv[i].err, <<reply.raw>>)
               /\ inv[i].result = <<>>

\* A search handler got HTTP 500 with the body "upstream error" and failed.
C4_Witness ==
    \E i \in DOMAIN inv :
        /\ inv[i].tool = "searxng_search" /\ inv[i].pc = "done" /\ inv[i].reply # <<>>
        /\ inv[i].reply[1].kind = "http" /\ inv[i].reply[1].status = 500
        /\ inv[i].reply[1].raw = "upstream error"
        /\ Contains(inv[i].err, <<"5", "0", "0">>)

(* C5: when the backend answers /config with a status other than 200, the  *)
(* searxng_engines_info handler fails with an error that holds the status  *)
(* code and the body text, and has no payload.                             *)
C5_EnginesStatusError ==
    \A i \in DOMAIN inv :
        (/\ inv[i].tool = "searxng_engines_info" /\ inv[i].pc = "done" /\ inv[i].reply # <<>>
         /\ inv[i].reply[1].kind = "http" /\ inv[i].reply[1].status # 200) =>
            /\ Contains(inv[i].err, Itoa(inv[i].reply[1].status))
            /\ Contains(inv[i].err, <<inv[i].reply[1].raw>>)
            /\ inv[i].result = <<>>

\* The list a string argument should give by C6: its elements split on ','
\* and trimmed, or the default when no non-empty element remains.
C6_Expected(arg, default) ==
    LET parts == SplitOn(arg.s, ",", <<>>)
        trimmed == [k \in 1..Len(parts) |-> TrimSpace(parts[k])]
    IN IF \A k \in 1..Len(trimmed) : trimmed[k] = <<>> THEN default ELSE trimmed

(* C6: the categories (general search) and engines (general and image      *)
(* search) lists passed to the client are the string argument split on ',' *)
(* and trimmed, the handler's default when that leaves no non-empty        *)
(* element, and never hold an empty string.                                *)
C6_Coercion ==
    \A i \in DOMAIN inv :
        (/\ inv[i].tool \in {"searxng_search", "searxng_image_search"}
         /\ inv[i].params # <<>> /\ inv[i].reqs # <<>>) =>
            LET p == inv[i].params[1]
                a == inv[i].args
                general == inv[i].tool = "searxng_search"
            IN /\ \A k \in 1..Len(p.Categories) : p.Categories[k] # <<>>
               /\ \A k \in 1..Len(p.Engines) : p.Engines[k] # <<>>
               /\ (general /\ a.categories.t = "str") =>
                      p.Categories = C6_Expected(a.categories, <<S_general>>)
               /\ a.engines.t = "str" =>
                      p.Engines = C6_Expected(a.engines,
                                      IF general THEN <<S_google>> ELSE <<S_google_images>>)

(* C7: the payload of the general-search handler always has the keys       *)
(* query, number_of_results and results (the results in the backend's      *)
(* order), has answers / suggestions / corrections iff that sequence of    *)
(* the response is non-empty, and never has infoboxes.                     *)
C7_GeneralPayload ==
    \A i \in DOMAIN inv :
        (inv[i].tool = "searxng_search" /\ inv[i].pc = "done" /\ inv[i].result # <<>>) =>
            LET payload == inv[i].result[1]
                keys == PayloadKeys(payload)
                doc == inv[i].reply[1].doc
                results == payload[PayloadValue(payload, "results")].v.l
            IN /\ {"query", "number_of_results", "results"} \subseteq keys
               /\ keys \subseteq {"query", "number_of_results", "results", "answers",
                                  "suggestions", "corrections"}
               /\ Len(payload) = Cardinality(keys)
               /\ ("answers" \in keys) <=> (Len(DocList(doc, "answers")) > 0)
               /\ ("suggestions" \in keys) <=> (Len(DocList(doc, "suggestions")) > 0)
               /\ ("corrections" \in keys) <=> (Len(DocList(doc, "corrections")) > 0)
               /\ "infoboxes" \notin keys
               /\ Len(results) = Len(DocList(doc, "results"))
               /\ \A k \in 1..Len(results) :
                      results[k][1].v = DocList(doc, "results")[k].o.title

\* The general-search handler returned a payload for a response with two
\* results, answers, infoboxes and the rest.
C7_Witness ==
    \E i \in DOMAIN inv :
        /\ inv[i].tool = "searxng_search" /\ inv[i].pc = "done" /\ inv[i].result # <<>>
        /\ inv[i].reply[1].doc = DocFull
        /\ "answers" \in PayloadKeys(inv[i].result[1])

(* C8: without a -t flag the server loop entered is stdio; the SSE server  *)
(* is started only when -t is sse.                                         *)
C8_DefaultStdio ==
    serving # "none" => ((serving = "sse") <=> (argv.t = <<"sse">>))

ArgValid(r) == r.tool \in SearchTools => r.args.query.t = "str"

ReplyFailed(reply) ==
    reply.kind = "neterr" \/ reply.status # 200 \/ reply.readerr \/ reply.doc.j = "invalid"

\* What C9 says of one invocation apart from the exactly-one-request part
C9_Common(r) ==
    /\ Len(r.reqs) <= 1
    /\ ~ ArgValid(r) => Len(r.reqs) = 0
    /\ r.pc = "inflight" => (r.result = <<>> /\ r.err = <<>> /\ Len(r.reqs) = 1)
    /\ r.pc = "done" => ((r.result = <<>>) # (r.err = <<>>))
    /\ (r.pc = "done" /\ r.reply # <<>>) => Len(r.reqs) = 1
    /\ (r.pc = "done" /\ r.reply # <<>> /\ ReplyFailed(r.reply[1])) =>
           (r.err # <<>> /\ r.result = <<>>)

(* C9 as stated: at most one request per invocation, exactly one when the  *)
(* required argument is valid, none after a failure, and exactly one       *)
(* outcome, an error for every failure.                                    *)
C9_ExactlyOneRequest ==
    \A i \in DOMAIN inv :
        inv[i].pc # "idle" =>
            /\ C9_Common(inv[i])
            /\ ArgValid(inv[i]) => Len(inv[i].reqs) = 1

(* C9 amended: as C9, with exactly one request when the required argument  *)
(* is valid and the request could be created (the URL built on the         *)
(* configured base URL parses); none when it could not.                    *)
C9_OneRequestIfCreated ==
    \A i \in DOMAIN inv :
        inv[i].pc # "idle" =>
            /\ C9_Common(inv[i])
            /\ (ArgValid(inv[i]) /\ URLParses(searxngClient[1].BaseURL)) => Len(inv[i].reqs) = 1
            /\ ~ URLParses(searxngClient[1].BaseURL) =>
                   (Len(inv[i].reqs) = 0 /\ inv[i].pc = "done" /\ inv[i].err # <<>>)

\* A handler's single request failed in the network and the handler
\* returned the error.
C9_Witness ==
    \E i \in DOMAIN inv :
        /\ inv[i].tool = "searxng_news_search" /\ inv[i].pc = "done"
        /\ inv[i].reply # <<>> /\ inv[i].reply[1].kind = "neterr"
        /\ Len(inv[i].reqs) = 1 /\ inv[i].err # <<>>

(* C10: the client configuration is written at start-up, before any        *)
(* invocation, and stays what the command line made it; an invocation's    *)
(* request depends only on its tool and arguments, and its outcome only on *)
(* these and its own backend response, whatever the other invocations did. *)
C10_Isolation ==
    /\ (\E i \in DOMAIN inv : inv[i].pc # "idle") => (mainpc = "serving" /\ searxngClient # <<>>)
    /\ mainpc # "start" =>
           searxngClient = << [BaseURL |-> TrimSuffixSlash(FlagSearxngURL(argv)),
                               Timeout |-> 30] >>
    /\ \A i, j \in DOMAIN inv :
           (/\ inv[i].pc # "idle" /\ inv[j].pc # "idle"
            /\ inv[i].tool = inv[j].tool /\ inv[i].args = inv[j].args) =>
               /\ inv[i].params = inv[j].params
               /\ inv[i].reqs = inv[j].reqs
               /\ (inv[i].pc = "done" /\ inv[j].pc = "done" /\ inv[i].reply = inv[j].reply) =>
                      (inv[i].result = inv[j].result /\ inv[i].err = inv[j].err)

\* Two invocations of the same tool with the same arguments have returned,
\* one with an error for a failed request, the other with a payload.
C10_Witness ==
    \E i, j \in DOMAIN inv :
        /\ i # j
        /\ inv[i].pc = "done" /\ inv[j].pc = "done"
        /\ inv[i].tool = inv[j].tool /\ inv[i].args = inv[j].args
        /\ inv[i].reply # <<>> /\ inv[i].reply[1].kind = "http" /\ inv[i].reply[1].status = 500
        /\ inv[i].err # <<>>
        /\ inv[j].result # <<>>

====
